---- MODULE Spec2Model ----
(***************************************************************************)
(* Choco Crunch Analytics: the batch pipeline of run_all.py                *)
(*   step_clean_transform -> step_feature_engineer -> step_eda ->          *)
(*   step_analytics                                                        *)
(* over the files data/raw_chocolate.jsonl, data/product_info.csv,         *)
(* data/nutrient_info.csv, data/derived_metrics.csv, the engineered        *)
(* parquet/snapshot and the 27 report CSVs under out/.                     *)
(*                                                                         *)
(* Text is a sequence of one-character strings, so that str(), split(),    *)
(* title(), float(), to_csv and read_csv are computed character by         *)
(* character.  A scalar (a JSON value, a DataFrame cell) is a record       *)
(* [k, s, n, d]: k its kind, s its text, n/d its value as a reduced        *)
(* fraction.                                                               *)
(***************************************************************************)
EXTENDS Integers, Sequences, FiniteSets, TLC

VARIABLES fetch, raw, product_csv, nutrient_csv, derived_csv, parquet,
          snapshot, eda, out, df, pc, err

vars == <<fetch, raw, product_csv, nutrient_csv, derived_csv, parquet,
          snapshot, eda, out, df, pc, err>>

(* Longest raw JSONL file that Init enumerates, in lines. *)
MaxRecords == 2

----------------------------------------------------------------------------
(* Characters, in ASCII order. *)
Ascii ==
  <<" ", "#", "+", ",", "-", ".", "/",
    "0", "1", "2", "3", "4", "5", "6", "7", "8", "9", "<", ">",
    "A", "B", "C", "D", "E", "F", "G", "H", "I", "J", "K", "L", "M",
    "N", "O", "P", "Q", "R", "S", "T", "U", "V", "W", "X", "Y", "Z",
    "[", "]",
    "a", "b", "c", "d", "e", "f", "g", "h", "i", "j", "k", "l", "m",
    "n", "o", "p", "q", "r", "s", "t", "u", "v", "w", "x", "y", "z">>

Code(c) == CHOOSE i \in 1..Len(Ascii) : Ascii[i] = c

FirstDigit == Code("0")
FirstUpper == Code("A")
FirstLower == Code("a")

IsDigit(c) == Code(c) \in FirstDigit..(FirstDigit + 9)
DigitVal(c) == Code(c) - FirstDigit
DigitChar(v) == Ascii[FirstDigit + v]
IsUpper(c) == Code(c) \in FirstUpper..(FirstUpper + 25)
IsLower(c) == Code(c) \in FirstLower..(FirstLower + 25)
IsAlpha(c) == IsUpper(c) \/ IsLower(c)
IsSpace(c) == c = " "
ToUpper(c) == IF IsLower(c) THEN Ascii[Code(c) - FirstLower + FirstUpper] ELSE c
ToLower(c) == IF IsUpper(c) THEN Ascii[Code(c) - FirstUpper + FirstLower] ELSE c

(* s < t in code-point order, as Python compares str. *)
RECURSIVE TextLess(_, _)
TextLess(s, t) ==
  IF t = <<>> THEN FALSE
  ELSE IF s = <<>> THEN TRUE
  ELSE IF Head(s) = Head(t) THEN TextLess(Tail(s), Tail(t))
  ELSE Code(Head(s)) < Code(Head(t))

(* str.strip() *)
RECURSIVE LStrip(_)
LStrip(s) == IF s # <<>> /\ IsSpace(Head(s)) THEN LStrip(Tail(s)) ELSE s

RECURSIVE RStrip(_)
RStrip(s) ==
  IF s # <<>> /\ IsSpace(s[Len(s)]) THEN RStrip(SubSeq(s, 1, Len(s) - 1)) ELSE s

Strip(s) == RStrip(LStrip(s))

(* The longest prefix of s holding no character for which stop holds. *)
RECURSIVE TakeUntil(_, _)
TakeUntil(s, stop) ==
  IF s = <<>> \/ Head(s) \in stop THEN <<>>
  ELSE <<Head(s)>> \o TakeUntil(Tail(s), stop)

(* str.split()[0]: the first whitespace-delimited token; Ok is FALSE when
   there is none (IndexError). *)
FirstToken(s) ==
  LET t == TakeUntil(LStrip(s), {" "})
  IN  [ok |-> t # <<>>, tok |-> t]

(* str.split(",")[0] *)
FirstCommaSegment(s) == TakeUntil(s, {","})

(* str.title(): a cased character is upper-cased after an uncased one (or at
   the start) and lower-cased after a cased one. *)
RECURSIVE TitleFrom(_, _)
TitleFrom(s, prevCased) ==
  IF s = <<>> THEN <<>>
  ELSE LET c == Head(s)
       IN  <<IF prevCased THEN ToLower(c) ELSE ToUpper(c)>>
             \o TitleFrom(Tail(s), IsAlpha(c))

Title(s) == TitleFrom(s, FALSE)

(* str.lower() *)
RECURSIVE LowerText(_)
LowerText(s) ==
  IF s = <<>> THEN <<>> ELSE <<ToLower(Head(s))>> \o LowerText(Tail(s))

----------------------------------------------------------------------------
(* Scalars. *)
Null == [k |-> "null", s |-> <<>>, n |-> 0, d |-> 1]
Str(s) == [k |-> "str", s |-> s, n |-> 0, d |-> 1]
PosInf == [k |-> "inf", s |-> <<>>, n |-> 1, d |-> 1]
NegInf == [k |-> "inf", s |-> <<>>, n |-> -1, d |-> 1]
(* A JSON array: not a scalar, not a mapping, truthy. *)
Obj == [k |-> "obj", s |-> <<>>, n |-> 0, d |-> 1]

Abs(x) == IF x < 0 THEN -x ELSE x

RECURSIVE GCD(_, _)
GCD(a, b) == IF b = 0 THEN a ELSE GCD(b, a % b)

(* The number n/d, d > 0, reduced. *)
Frac(n, d) ==
  LET g == GCD(Abs(n), d)
  IN  [k |-> "num", s |-> <<>>, n |-> n \div g, d |-> d \div g]

Num(n) == Frac(n, 1)

IsNull(x) == x.k = "null"
IsNum(x) == x.k = "num"
IsInf(x) == x.k = "inf"
(* A float that is not NaN. *)
IsFloat(x) == x.k \in {"num", "inf"}

(* x < y and x <= y on floats; FALSE when either is NaN or not a number, as
   every comparison with NaN is. *)
Lt(x, y) ==
  /\ IsFloat(x) /\ IsFloat(y)
  /\ IF IsInf(x) THEN x.n < 0 /\ y # NegInf
     ELSE IF IsInf(y) THEN y.n > 0
     ELSE x.n * y.d < y.n * x.d

Le(x, y) == IsFloat(x) /\ IsFloat(y) /\ (x = y \/ Lt(x, y))
Gt(x, y) == Lt(y, x)

(* Python truthiness, as `or` and `not` use it. *)
Truthy(x) ==
  CASE x.k = "null" -> FALSE
    [] x.k = "str" -> x.s # <<>>
    [] x.k = "num" -> x.n # 0
    [] OTHER -> TRUE

(* a or b *)
PyOr(a, b) == IF Truthy(a) THEN a ELSE b

Pow10(e) == IF e = 0 THEN 1 ELSE IF e = 1 THEN 10 ELSE IF e = 2 THEN 100 ELSE 1000

(* The decimal digits of a natural number. *)
RECURSIVE NatText(_)
NatText(n) ==
  IF n < 10 THEN <<DigitChar(n)>> ELSE NatText(n \div 10) \o <<DigitChar(n % 10)>>

IntText(n) == IF n < 0 THEN <<"-">> \o NatText(-n) ELSE NatText(n)

(* The least e with d dividing 10^e (the inputs are decimals of at most
   three fractional digits). *)
DecimalPlaces(d) == CHOOSE e \in 0..3 : Pow10(e) % d = 0 /\ \A f \in 0..(e - 1) : Pow10(f) % d # 0

(* The digits of v padded with zeros on the left to width w. *)
RECURSIVE PadNat(_, _)
PadNat(v, w) == IF w = 0 THEN <<>> ELSE PadNat(v \div 10, w - 1) \o <<DigitChar(v % 10)>>

(* repr() of a float: 120.0 -> "120.0", 0.5 -> "0.5", inf -> "inf". *)
FloatText(x) ==
  IF IsInf(x) THEN (IF x.n < 0 THEN <<"-">> ELSE <<>>) \o <<"i", "n", "f">>
  ELSE IF IsNull(x) THEN <<"n", "a", "n">>
  ELSE LET e == DecimalPlaces(x.d)
           m == Abs(x.n) * (Pow10(e) \div x.d)
           sign == IF x.n < 0 THEN <<"-">> ELSE <<>>
       IN  IF e = 0 THEN sign \o NatText(m) \o <<".", "0">>
           ELSE sign \o NatText(m \div Pow10(e)) \o <<".">> \o PadNat(m % Pow10(e), e)

(* str(x) of a JSON value: an integer renders without a fraction. *)
PyStr(x) ==
  CASE x.k = "null" -> <<"N", "o", "n", "e">>
    [] x.k = "str" -> x.s
    [] x.k = "num" -> IF x.d = 1 THEN IntText(x.n) ELSE FloatText(x)
    [] x.k = "inf" -> FloatText(x)
    [] OTHER -> <<"[", "1", "]">>

RECURSIVE AllDigits(_)
AllDigits(s) == s = <<>> \/ (IsDigit(Head(s)) /\ AllDigits(Tail(s)))

RECURSIVE NatVal(_)
NatVal(s) == IF s = <<>> THEN 0 ELSE NatVal(SubSeq(s, 1, Len(s) - 1)) * 10 + DigitVal(s[Len(s)])

(* An optional sign taken off a token. *)
Unsigned(t) == IF t # <<>> /\ Head(t) \in {"+", "-"} THEN Tail(t) ELSE t
SignOf(t) == IF t # <<>> /\ Head(t) = "-" THEN -1 ELSE 1

(* Whether t is [sign] digits (an integer literal; leading zeros allowed). *)
IsIntText(t) == LET u == Unsigned(t) IN u # <<>> /\ AllDigits(u)

IntVal(t) == SignOf(t) * NatVal(Unsigned(t))

(* float(t) of a token without whitespace: [sign] digits [. digits] with a
   digit on one side of the point at least, or inf / infinity / nan in any
   case.  ok is FALSE on ValueError; a parsed nan is Null. *)
ParseFloat(t) ==
  LET u == Unsigned(t)
      w == LowerText(u)
      ip == TakeUntil(u, {"."})
      rest == SubSeq(u, Len(ip) + 1, Len(u))
      fp == IF rest = <<>> THEN <<>> ELSE Tail(rest)
  IN  IF w \in {<<"i", "n", "f">>, <<"i", "n", "f", "i", "n", "i", "t", "y">>}
        THEN [ok |-> TRUE, v |-> IF SignOf(t) < 0 THEN NegInf ELSE PosInf]
      ELSE IF w = <<"n", "a", "n">> THEN [ok |-> TRUE, v |-> Null]
      ELSE IF /\ AllDigits(ip) /\ AllDigits(fp) /\ Len(ip) + Len(fp) > 0
              /\ Len(fp) <= 3
        THEN [ok |-> TRUE,
              v |-> Frac(SignOf(t) * (NatVal(ip) * Pow10(Len(fp)) + NatVal(fp)),
                         Pow10(Len(fp)))]
      ELSE [ok |-> FALSE, v |-> Null]

(* to_float (run_all.py:32-34): float(str(x).split()[0]), NaN on any
   exception. *)
to_float(x) ==
  LET ft == FirstToken(PyStr(x))
  IN  IF ~ft.ok THEN Null
      ELSE LET r == ParseFloat(ft.tok) IN IF r.ok THEN r.v ELSE Null

(* The literal "Unknown". *)
Unknown == Str(<<"U", "n", "k", "n", "o", "w", "n">>)

(* normalize_brand (run_all.py:38-41). *)
normalize_brand(b) ==
  IF ~Truthy(b) THEN Unknown
  ELSE LET first == Strip(FirstCommaSegment(PyStr(b)))
       IN  IF first # <<>> THEN Str(Title(first)) ELSE Unknown

----------------------------------------------------------------------------
(* Sequences. *)
RECURSIVE WhereFrom(_, _)
WhereFrom(flags, lo) ==
  IF lo > Len(flags) THEN <<>>
  ELSE (IF flags[lo] THEN <<lo>> ELSE <<>>) \o WhereFrom(flags, lo + 1)

(* The indices, ascending, at which the boolean sequence holds. *)
Where(flags) == WhereFrom(flags, 1)

Pick(s, idx) == [i \in 1..Len(idx) |-> s[idx[i]]]

Range(s) == {s[i] : i \in 1..Len(s)}

RECURSIVE Without(_, _)
(* The sequence s without the elements equal to x. *)
Without(s, x) ==
  IF s = <<>> THEN <<>>
  ELSE (IF Head(s) = x THEN <<>> ELSE <<Head(s)>>) \o Without(Tail(s), x)

RECURSIVE Flatten(_)
Flatten(ss) == IF ss = <<>> THEN <<>> ELSE Head(ss) \o Flatten(Tail(ss))

----------------------------------------------------------------------------
(* Files and tables.  A DataFrame is its column names in order and its rows,
   each a function from column name to scalar.  A CSV file on disk holds
   text cells; the engineered parquet/snapshot and the reports are kept as
   the frame that was written. *)
NoFile == [exists |-> FALSE, cols |-> <<>>, rows |-> <<>>]
File(frame) == [exists |-> TRUE, cols |-> frame.cols, rows |-> frame.rows]
Frame(cols, rows) == [cols |-> cols, rows |-> rows]
NoFrame == Frame(<<>>, <<>>)
HasCol(frame, c) == c \in Range(frame.cols)
HasCols(frame, cs) == cs \subseteq Range(frame.cols)

(* pd.DataFrame(list of dicts): the columns are the dicts' keys; an empty
   list gives a frame with no columns at all. *)
DataFrameOf(cols, rows) == IF rows = <<>> THEN NoFrame ELSE Frame(cols, rows)

(* DataFrame.drop_duplicates(key): an empty frame is returned as it is
   (before the key is looked up); otherwise the first row of each key value
   is kept, None/NaN keys being equal to each other. *)
drop_duplicates(frame, key) ==
  IF frame.rows = <<>> THEN frame
  ELSE LET r == frame.rows
           first == [i \in 1..Len(r) |-> \A j \in 1..(i - 1) : r[j][key] # r[i][key]]
       IN  Frame(frame.cols, Pick(r, Where(first)))

(* The text to_csv writes for a cell: nothing for None/NaN, the string
   itself, repr of a float. *)
CsvText(x) ==
  CASE x.k = "null" -> <<>>
    [] x.k = "str" -> x.s
    [] OTHER -> FloatText(x)

(* DataFrame.to_csv(path, index=False): a header line of the column names
   (an empty line when there are none) and one line per row. *)
to_csv(frame) ==
  [exists |-> TRUE, cols |-> frame.cols,
   rows |-> [i \in 1..Len(frame.rows) |->
               [c \in Range(frame.cols) |-> CsvText(frame.rows[i][c])]]]

(* read_csv's default na_values. *)
NaTexts ==
  { <<>>,
    <<"#", "N", "/", "A">>,
    <<"#", "N", "/", "A", " ", "N", "/", "A">>,
    <<"#", "N", "A">>,
    <<"-", "1", ".", "#", "I", "N", "D">>,
    <<"-", "1", ".", "#", "Q", "N", "A", "N">>,
    <<"-", "N", "a", "N">>,
    <<"-", "n", "a", "n">>,
    <<"1", ".", "#", "I", "N", "D">>,
    <<"1", ".", "#", "Q", "N", "A", "N">>,
    <<"<", "N", "A", ">">>,
    <<"N", "/", "A">>,
    <<"N", "A">>,
    <<"N", "U", "L", "L">>,
    <<"N", "a", "N">>,
    <<"N", "o", "n", "e">>,
    <<"n", "/", "a">>,
    <<"n", "a", "n">>,
    <<"n", "u", "l", "l">> }

(* The dtype read_csv infers for a column from its texts: int64 (float64
   once a value is missing) when every present text is an integer literal,
   float64 when every one parses as a float, object otherwise. *)
ColumnKind(texts) ==
  LET present == {t \in texts : t \notin NaTexts}
  IN  IF \A t \in present : IsIntText(Strip(t)) THEN "int"
      ELSE IF \A t \in present : ParseFloat(Strip(t)).ok THEN "float"
      ELSE "object"

(* One cell as read_csv parses it in a column of the given dtype. *)
ParseCell(kind, t) ==
  IF t \in NaTexts THEN Null
  ELSE CASE kind = "int" -> Num(IntVal(Strip(t)))
         [] kind = "float" -> ParseFloat(Strip(t)).v
         [] OTHER -> Str(t)

(* The exception pd.read_csv(path) raises, "none" when it reads the file. *)
ReadCsvError(file) ==
  IF ~file.exists THEN "FileNotFoundError"
  ELSE IF file.cols = <<>> THEN "EmptyDataError"
  ELSE "none"

(* pd.read_csv(path) of a file it can read. *)
read_csv(file) ==
  LET kind == [c \in Range(file.cols) |->
                 ColumnKind({file.rows[i][c] : i \in 1..Len(file.rows)})]
  IN  Frame(file.cols,
            [i \in 1..Len(file.rows) |->
               [c \in Range(file.cols) |-> ParseCell(kind[c], file.rows[i][c])]])

(* left.merge(right, on=key, how="left"): every left row in order, once per
   right row with an equal key (null keys match each other), and once with
   null right columns when there is none. *)
merge(left, right, key) ==
  LET rcols == Without(right.cols, key)
      joined(l, r) == [c \in Range(left.cols) \cup Range(rcols) |->
                         IF c \in Range(left.cols) THEN l[c] ELSE r[c]]
      alone(l) == [c \in Range(left.cols) \cup Range(rcols) |->
                     IF c \in Range(left.cols) THEN l[c] ELSE Null]
      same(l) == Where([j \in 1..Len(right.rows) |-> right.rows[j][key] = l[key]])
      rowsOf(l) == IF same(l) = <<>> THEN <<alone(l)>>
                   ELSE [j \in 1..Len(same(l)) |-> joined(l, right.rows[same(l)[j]])]
  IN  Frame(left.cols \o rcols,
            Flatten([i \in 1..Len(left.rows) |-> rowsOf(left.rows[i])]))

----------------------------------------------------------------------------
(* Step 2: cleaning and transformation. *)
ProductCols == <<"product_code", "product_name", "brand">>

NutrientValueCols ==
  <<"energy-kcal_value", "energy-kj_value", "carbohydrates_value",
    "sugars_value", "fat_value", "saturated-fat_value", "proteins_value",
    "fiber_value", "salt_value", "sodium_value",
    "fruits-vegetables-nuts-estimate-from-ingredients_100g",
    "nutrition-score-fr", "nova-group">>

NutrientCols == <<"product_code">> \o NutrientValueCols

DerivedCols == <<"product_code">>

(* dict.get(key): None when the key is missing. *)
Get(m, key) == IF key \in DOMAIN m THEN m[key] ELSE Null

(* The key of `nutriments` a nutrient column is read from. *)
SourceKey(col) ==
  CASE col = "energy-kcal_value" -> "energy-kcal_100g"
    [] col = "energy-kj_value" -> "energy-kj_100g"
    [] col = "carbohydrates_value" -> "carbohydrates_100g"
    [] col = "sugars_value" -> "sugars_100g"
    [] col = "fat_value" -> "fat_100g"
    [] col = "saturated-fat_value" -> "saturated-fat_100g"
    [] col = "proteins_value" -> "proteins_100g"
    [] col = "fiber_value" -> "fiber_100g"
    [] col = "salt_value" -> "salt_100g"
    [] col = "sodium_value" -> "sodium_100g"
    [] col = "fruits-vegetables-nuts-estimate-from-ingredients_100g"
         -> "fruits-vegetables-nuts-estimate-from-ingredients_100g"
    [] col = "nutrition-score-fr" -> "nutrition-score-fr_100g"
    [] col = "nova-group" -> "nova-group_100g"

(* The value handed to to_float for a nutrient column: nutr.get(key), and
   for the last two columns nutr.get(key_100g) or nutr.get(key). *)
NutrientArg(nutr, col) ==
  IF col \in {"nutrition-score-fr", "nova-group"}
    THEN PyOr(Get(nutr, SourceKey(col)), Get(nutr, col))
    ELSE Get(nutr, SourceKey(col))

(* p.get("nutriments") or {}: `nutriments` is absent (or null), a mapping, a
   falsy value that is no mapping ("", 0, []), or a truthy value that is no
   mapping (a string, a number, a list): only the last survives the `or`
   without being a mapping. *)
NutrimentsOrEmpty(p) ==
  IF p.nutriments.shape = "map" THEN p.nutriments.m ELSE <<>>

(* Whether the body of the loop raises AttributeError on record p: nutr.get
   on a value that has no get. *)
NutrimentsRaise(p) == p.nutriments.shape = "truthy"

(* The three rows the loop appends for one record (run_all.py:99-120). *)
ProductRow(p) ==
  [c \in Range(ProductCols) |->
     CASE c = "product_code" -> p.code
       [] c = "product_name" -> PyOr(p.product_name, Unknown)
       [] c = "brand" -> normalize_brand(p.brands)]

NutrientRow(p) ==
  [c \in Range(NutrientCols) |->
     IF c = "product_code" THEN p.code
     ELSE to_float(NutrientArg(NutrimentsOrEmpty(p), c))]

DerivedRow(p) == [c \in Range(DerivedCols) |-> p.code]

(* read_jsonl (run_all.py:86-92): the parsed value of every line that is
   not blank and that json.loads accepts. *)
read_jsonl(file) ==
  LET l == file.lines
  IN  Pick(l, Where([i \in 1..Len(l) |-> l[i].k \in {"object", "value"}]))

(* CleanError without the os.path.exists test, a missing file read as an
   empty one. *)
CleanErrorNoExistsTest(file) ==
  IF \E p \in Range(read_jsonl(file)) : p.k = "value" \/ NutrimentsRaise(p.p)
    THEN "AttributeError"
  ELSE "none"

(* The exception step_clean_transform raises on the raw file, "none" when it
   runs to its end: the file is missing, or a parsed line is no JSON object
   (p.get), or its nutriments are a truthy non-mapping (nutr.get). *)
CleanError(file) ==
  IF ~file.exists THEN "FileNotFoundError"
  ELSE IF \E p \in Range(read_jsonl(file)) :
            p.k = "value" \/ NutrimentsRaise(p.p)
    THEN "AttributeError"
  ELSE "none"

Records(file) == LET r == read_jsonl(file) IN [i \in 1..Len(r) |-> r[i].p]

CleanProducts(file) ==
  LET r == Records(file)
  IN  drop_duplicates(DataFrameOf(ProductCols, [i \in 1..Len(r) |-> ProductRow(r[i])]),
                      "product_code")

CleanNutrients(file) ==
  LET r == Records(file)
  IN  drop_duplicates(DataFrameOf(NutrientCols, [i \in 1..Len(r) |-> NutrientRow(r[i])]),
                      "product_code")

CleanDerived(file) ==
  LET r == Records(file)
  IN  drop_duplicates(DataFrameOf(DerivedCols, [i \in 1..Len(r) |-> DerivedRow(r[i])]),
                      "product_code")

(* What the caller sees of a stage that raised: the stage and the
   exception's type. *)
NoError == [step |-> "none", exc |-> "none"]
Raised(step, exc) == [step |-> step, exc |-> exc]

(* step_clean_transform (run_all.py:94-127). *)
CleanRaise ==
  /\ pc = "clean"
  /\ CleanError(raw) # "none"
  /\ pc' = "raised"
  /\ err' = Raised("step_clean_transform", CleanError(raw))
  /\ UNCHANGED <<fetch, raw, product_csv, nutrient_csv, derived_csv, parquet,
                 snapshot, eda, out, df>>

CleanOk ==
  /\ pc = "clean"
  /\ CleanError(raw) = "none"
  /\ product_csv' = to_csv(CleanProducts(raw))
  /\ nutrient_csv' = to_csv(CleanNutrients(raw))
  /\ derived_csv' = to_csv(CleanDerived(raw))
  /\ pc' = "engineer"
  /\ UNCHANGED <<fetch, raw, parquet, snapshot, eda, out, df, err>>

step_clean_transform == CleanRaise \/ CleanOk

----------------------------------------------------------------------------
(* Step 3: feature engineering. *)
Low == Str(<<"L", "o", "w">>)
Moderate == Str(<<"M", "o", "d", "e", "r", "a", "t", "e">>)
High == Str(<<"H", "i", "g", "h">>)
Yes == Str(<<"Y", "e", "s">>)
No == Str(<<"N", "o">>)

DerivedFeatureCols ==
  <<"sugar_to_carb_ratio", "calorie_category", "sugar_category",
    "is_ultra_processed">>

(* The columns step_feature_engineer reads by name after the merge. *)
EngineerReads ==
  {"sugars_value", "carbohydrates_value", "energy-kcal_value", "nova-group"}

(* safe_num (run_all.py:36): pd.to_numeric(errors="coerce") of one cell. *)
safe_num(x) ==
  IF x.k = "str"
    THEN LET r == ParseFloat(Strip(x.s)) IN IF r.ok THEN r.v ELSE Null
  ELSE IF IsFloat(x) THEN x ELSE Null

(* s / c in floating point for c > 0: inf/inf is NaN. *)
Divide(s, c) ==
  IF IsInf(s) /\ IsInf(c) THEN Null
  ELSE IF IsInf(s) THEN s
  ELSE IF IsInf(c) THEN Num(0)
  ELSE Frac(s.n * c.d, s.d * c.n)

(* np.clip(x, lo, hi): NaN stays NaN. *)
Clip(x, lo, hi) ==
  IF IsNull(x) THEN Null ELSE IF Lt(x, lo) THEN lo ELSE IF Gt(x, hi) THEN hi ELSE x

(* The ratio without np.clip. *)
sugar_to_carb_ratio_unclipped(sugars, carbs) ==
  IF Gt(carbs, Num(0)) /\ ~IsNull(sugars) THEN Divide(sugars, carbs) ELSE Null

(* run_all.py:142-144 for one row. *)
sugar_to_carb_ratio(sugars, carbs) ==
  IF Gt(carbs, Num(0)) /\ ~IsNull(sugars)
    THEN Clip(Divide(sugars, carbs), Num(0), Num(1))
    ELSE Null

(* cat_cal with the bounds 150 and 300 excluded. *)
cat_cal_exclusive(k) ==
  IF IsNull(k) THEN Unknown
  ELSE IF Lt(k, Num(150)) THEN Low
  ELSE IF Lt(k, Num(300)) THEN Moderate
  ELSE High

(* run_all.py:146-150. *)
cat_cal(k) ==
  IF IsNull(k) THEN Unknown
  ELSE IF Le(k, Num(150)) THEN Low
  ELSE IF Le(k, Num(300)) THEN Moderate
  ELSE High

(* run_all.py:153-157. *)
cat_sug(x) ==
  IF IsNull(x) THEN Unknown
  ELSE IF Lt(x, Num(5)) THEN Low
  ELSE IF Le(x, Num(15)) THEN Moderate
  ELSE High

(* is_ultra_processed without the test for a missing nova-group. *)
is_ultra_processed_no_unknown(n) == IF n = Num(4) THEN Yes ELSE No

(* run_all.py:160. *)
is_ultra_processed(n) ==
  IF n = Num(4) THEN Yes ELSE IF ~IsNull(n) THEN No ELSE Unknown

(* One merged row with the four numeric columns coerced and the derived
   columns added (run_all.py:137-160). *)
EngineerRow(r) ==
  LET num(c) == safe_num(r[c])
  IN  [c \in DOMAIN r \cup Range(DerivedFeatureCols) |->
         CASE c \in EngineerReads -> num(c)
           [] c = "sugar_to_carb_ratio"
                -> sugar_to_carb_ratio(num("sugars_value"), num("carbohydrates_value"))
           [] c = "calorie_category" -> cat_cal(num("energy-kcal_value"))
           [] c = "sugar_category" -> cat_sug(num("sugars_value"))
           [] c = "is_ultra_processed" -> is_ultra_processed(num("nova-group"))
           [] OTHER -> r[c]]

(* The dtype family of the key column of a CSV file, as merge compares it. *)
KeyFamily(file, key) ==
  IF ColumnKind({file.rows[i][key] : i \in 1..Len(file.rows)}) = "object"
    THEN "object" ELSE "number"

(* The exception step_feature_engineer raises, "none" when it runs to its
   end: a read_csv that fails, a merge key that is missing or of two dtype
   families, a column it converts that is missing. *)
EngineerError(pfile, nfile) ==
  IF ReadCsvError(pfile) # "none" THEN ReadCsvError(pfile)
  ELSE IF ReadCsvError(nfile) # "none" THEN ReadCsvError(nfile)
  ELSE IF ~HasCol(pfile, "product_code") \/ ~HasCol(nfile, "product_code")
    THEN "KeyError"
  ELSE IF KeyFamily(pfile, "product_code") # KeyFamily(nfile, "product_code")
    THEN "ValueError"
  ELSE IF ~(EngineerReads \subseteq Range(pfile.cols) \cup Range(nfile.cols))
    THEN "KeyError"
  ELSE "none"

(* The frame step_feature_engineer builds and returns. *)
Engineered(pfile, nfile) ==
  LET m == merge(read_csv(pfile), read_csv(nfile), "product_code")
  IN  Frame(m.cols \o DerivedFeatureCols,
            [i \in 1..Len(m.rows) |-> EngineerRow(m.rows[i])])

(* step_feature_engineer (run_all.py:132-164). *)
EngineerRaise ==
  /\ pc = "engineer"
  /\ EngineerError(product_csv, nutrient_csv) # "none"
  /\ pc' = "raised"
  /\ err' = Raised("step_feature_engineer", EngineerError(product_csv, nutrient_csv))
  /\ UNCHANGED <<fetch, raw, product_csv, nutrient_csv, derived_csv, parquet,
                 snapshot, eda, out, df>>

EngineerOk ==
  /\ pc = "engineer"
  /\ EngineerError(product_csv, nutrient_csv) = "none"
  /\ df' = Engineered(product_csv, nutrient_csv)
  /\ parquet' = File(df')
  /\ snapshot' = File(df')
  /\ pc' = "eda"
  /\ UNCHANGED <<fetch, raw, product_csv, nutrient_csv, derived_csv, eda, out, err>>

step_feature_engineer == EngineerRaise \/ EngineerOk

----------------------------------------------------------------------------
(* Step 4: the plots.  Only the column look-ups are modelled: the plots are
   drawn in order, a missing column is a KeyError at the plot that reads it,
   and the plots before it have been saved. *)
EdaPlots ==
  <<"energy_hist", "sugar_hist", "box_sugar_calorie", "scatter_energy_sugar",
    "heatmap_corr">>

EdaReads(plot) ==
  CASE plot = "energy_hist" -> {"energy-kcal_value"}
    [] plot = "sugar_hist" -> {"sugars_value"}
    [] plot = "box_sugar_calorie" -> {"calorie_category", "sugars_value"}
    [] plot = "scatter_energy_sugar" -> {"energy-kcal_value", "sugars_value"}
    [] plot = "heatmap_corr" ->
         {"energy-kcal_value", "sugars_value", "carbohydrates_value",
          "fat_value", "proteins_value"}

(* The plots step_eda saves on frame d: those before the first that fails. *)
EdaSaved(d) ==
  {EdaPlots[i] : i \in {i \in 1..Len(EdaPlots) :
                          \A j \in 1..i : HasCols(d, EdaReads(EdaPlots[j]))}}

EdaRaise ==
  /\ pc = "eda"
  /\ EdaSaved(df) # Range(EdaPlots)
  /\ eda' = eda \cup EdaSaved(df)
  /\ pc' = "raised"
  /\ err' = Raised("step_eda", "KeyError")
  /\ UNCHANGED <<fetch, raw, product_csv, nutrient_csv, derived_csv, parquet,
                 snapshot, out, df>>

EdaOk ==
  /\ pc = "eda"
  /\ EdaSaved(df) = Range(EdaPlots)
  /\ eda' = eda \cup EdaSaved(df)
  /\ pc' = "analytics"
  /\ UNCHANGED <<fetch, raw, product_csv, nutrient_csv, derived_csv, parquet,
                 snapshot, out, df, err>>

step_eda == EdaRaise \/ EdaOk

----------------------------------------------------------------------------
(* Step 5: the 27 reports. *)
Col(d, c) == [i \in 1..Len(d.rows) |-> d.rows[i][c]]

(* df[mask] *)
Filter(d, flags) == Frame(d.cols, Pick(d.rows, Where(flags)))

(* df[[columns]] *)
Project(d, cols) ==
  Frame(cols, [i \in 1..Len(d.rows) |-> [c \in Range(cols) |-> d.rows[i][c]]])

(* The order a sorted index puts its keys in: numbers by value, strings by
   code point, numbers before strings. *)
CellLess(x, y) ==
  IF IsFloat(x) /\ IsFloat(y) THEN Lt(x, y)
  ELSE IF x.k = "str" /\ y.k = "str" THEN TextLess(x.s, y.s)
  ELSE IsFloat(x) /\ ~IsFloat(y)

(* The indices 1..n in the order of the strict total order before. *)
SortedIdx(n, before(_, _)) ==
  LET rank(i) == 1 + Cardinality({j \in 1..n : before(j, i)})
  IN  [r \in 1..n |-> CHOOSE i \in 1..n : rank(i) = r]

(* The distinct non-null values of a sequence, in order of first
   appearance. *)
Distinct(vals) ==
  Pick(vals, Where([i \in 1..Len(vals) |->
                      ~IsNull(vals[i]) /\ \A j \in 1..(i - 1) : vals[j] # vals[i]]))

(* The keys of df.groupby(key, dropna=False): the null key is kept, last. *)
GroupKeysKeepNull(d, key) ==
  LET u == Distinct(Col(d, key))
      before(i, j) == CellLess(u[i], u[j])
  IN  Pick(u, SortedIdx(Len(u), before))
        \o (IF \E i \in 1..Len(d.rows) : IsNull(d.rows[i][key]) THEN <<Null>> ELSE <<>>)

(* The keys of df.groupby(key): null keys are dropped (dropna=True), the
   others sorted (sort=True). *)
GroupKeys(d, key) ==
  LET u == Distinct(Col(d, key))
      before(i, j) == CellLess(u[i], u[j])
  IN  Pick(u, SortedIdx(Len(u), before))

Members(d, key, k) == Filter(d, [i \in 1..Len(d.rows) |-> d.rows[i][key] = k])

AddFrac(a, b) == Frac(a.n * b.d + b.n * a.d, a.d * b.d)

RECURSIVE SumOf(_)
SumOf(vals) == IF vals = <<>> THEN Num(0) ELSE AddFrac(Head(vals), SumOf(Tail(vals)))

(* Series.mean(): NaN is skipped; no value left gives NaN. *)
Mean(vals) ==
  LET v == Pick(vals, Where([i \in 1..Len(vals) |-> IsFloat(vals[i])]))
      fin == Pick(v, Where([i \in 1..Len(v) |-> IsNum(v[i])]))
      t == SumOf(fin)
  IN  IF v = <<>> THEN Null
      ELSE IF PosInf \in Range(v) /\ NegInf \in Range(v) THEN Null
      ELSE IF PosInf \in Range(v) THEN PosInf
      ELSE IF NegInf \in Range(v) THEN NegInf
      ELSE Frac(t.n, t.d * Len(v))

(* Series.nunique(): the number of distinct non-null values. *)
NUnique(vals) == Num(Len(Distinct(vals)))

(* df.groupby(key)...reset_index(): one row per key, the key and agg of the
   group's rows. *)
GroupAgg(d, key, name, agg(_)) ==
  LET ks == GroupKeys(d, key)
  IN  Frame(<<key, name>>,
            [i \in 1..Len(ks) |->
               [c \in {key, name} |->
                  IF c = key THEN ks[i] ELSE agg(Members(d, key, ks[i]))]])

(* Series.value_counts().reset_index(): the distinct non-null values with
   their counts, most frequent first, equal counts in order of first
   appearance. *)
ValueCounts(d, key) ==
  LET u == Distinct(Col(d, key))
      cnt(i) == Len(Members(d, key, u[i]).rows)
      before(i, j) == cnt(i) > cnt(j) \/ (cnt(i) = cnt(j) /\ i < j)
      o == SortedIdx(Len(u), before)
  IN  Frame(<<key, "count">>,
            [r \in 1..Len(u) |->
               [c \in {key, "count"} |->
                  IF c = key THEN u[o[r]] ELSE Num(cnt(o[r]))]])

(* DataFrame.head(n) *)
HeadRows(d, n) ==
  Frame(d.cols, SubSeq(d.rows, 1, IF Len(d.rows) < n THEN Len(d.rows) ELSE n))

(* The orders in which a sort that is not stable may leave equal keys.  Of
   all of them two are kept: the order of the input and its reverse. *)
TieOrders == {"input", "reversed"}

(* DataFrame.nlargest(n, col), keep="first".  On a frame of more than n rows
   the rows with a value are selected and ordered by a stable sort: largest
   first, equal values in row order, and the rows without a value follow.
   On a frame of at most n rows pandas returns
   sort_values(ascending=False).head(n) instead, whose default sort
   (quicksort) is not stable: equal values come out in the order `ties`, the
   rows without a value last and in row order. *)
NLargestWith(d, n, col, ties) ==
  LET v == Col(d, col)
      rowOrder(i, j) ==
        IF Len(d.rows) > n \/ ties = "input" \/ ~IsFloat(v[i]) THEN i < j ELSE j < i
      before(i, j) ==
        \/ IsFloat(v[i]) /\ ~IsFloat(v[j])
        \/ IsFloat(v[i]) /\ IsFloat(v[j]) /\ Gt(v[i], v[j])
        \/ /\ IsFloat(v[i]) <=> IsFloat(v[j])
           /\ ~Gt(v[i], v[j]) /\ ~Gt(v[j], v[i])
           /\ rowOrder(i, j)
  IN  HeadRows(Frame(d.cols, Pick(d.rows, SortedIdx(Len(d.rows), before))), n)

(* nlargest when equal values keep their row order. *)
NLargest(d, n, col) == NLargestWith(d, n, col, "input")

(* A frame of one row. *)
OneRow(name, x) == Frame(<<name>>, <<[c \in {name} |-> x]>>)

(* astype(str) of a cell. *)
AsStr(x) == IF IsNull(x) THEN <<"n", "a", "n">> ELSE PyStr(x)

(* Series.fillna(v) of one cell. *)
FillNa(x, v) == IF IsNull(x) THEN v ELSE x

QueryNames ==
  <<"q01_products_per_brand", "q02_unique_products_per_brand",
    "q03_top5_brands_by_count", "q04_missing_product_name",
    "q05_unique_brands_count", "q06_codes_starting_3",
    "q07_top10_energy_kcal", "q08_avg_sugar_by_nova", "q09_fat_gt20",
    "q10_avg_carbs_per_product", "q11_sodium_gt1g", "q12_fvn_nonzero",
    "q13_energy_gt500", "q14_count_per_calorie_category", "q15_high_sugar",
    "q16_avg_ratio_high_calorie", "q17_high_cal_high_sugar",
    "q18_ultra_processed", "q19_ratio_gt0_7",
    "q20_avg_ratio_by_calorie_category", "q21_top5_brands_high_cal",
    "q22_avg_kcal_by_calorie_category", "q23_ultra_count_per_brand",
    "q24_high_sugar_high_cal_brand", "q25_avg_sugar_ultra_by_brand",
    "q26_avg_fvn_by_calorie_category", "q27_top5_by_ratio">>

NQueries == Len(QueryNames)

Fvn == "fruits-vegetables-nuts-estimate-from-ingredients_100g"

Q07Cols == <<"product_code", "brand", "energy-kcal_value">>
Q24Cols == <<"brand", "sugars_value", "energy-kcal_value">>
Q27Cols ==
  <<"product_code", "brand", "product_name", "sugar_to_carb_ratio",
    "calorie_category", "sugar_category">>

(* The columns the k-th report looks up by name: the report raises KeyError
   when one is missing. *)
QueryReads(k) ==
  CASE k = 1 -> {"brand"}
    [] k = 2 -> {"brand", "product_code"}
    [] k = 3 -> {"brand"}
    [] k = 4 -> {"product_name"}
    [] k = 5 -> {"brand"}
    [] k = 6 -> {"product_code"}
    [] k = 7 -> Range(Q07Cols)
    [] k = 8 -> {"nova-group", "sugars_value"}
    [] k = 9 -> {"fat_value"}
    [] k = 10 -> {"product_code", "carbohydrates_value"}
    [] k = 11 -> {"sodium_value"}
    [] k = 12 -> {Fvn}
    [] k = 13 -> {"energy-kcal_value"}
    [] k = 14 -> {"calorie_category"}
    [] k = 15 -> {"sugar_category"}
    [] k = 16 -> {"calorie_category", "sugar_to_carb_ratio"}
    [] k = 17 -> {"calorie_category", "sugar_category"}
    [] k = 18 -> {"is_ultra_processed"}
    [] k = 19 -> {"sugar_to_carb_ratio"}
    [] k = 20 -> {"calorie_category", "sugar_to_carb_ratio"}
    [] k = 21 -> {"calorie_category", "brand"}
    [] k = 22 -> {"calorie_category", "energy-kcal_value"}
    [] k = 23 -> {"is_ultra_processed", "brand"}
    [] k = 24 -> {"sugar_category", "calorie_category"} \cup Range(Q24Cols)
    [] k = 25 -> {"is_ultra_processed", "brand", "sugars_value"}
    [] k = 26 -> {"calorie_category", Fvn}
    [] k = 27 -> Range(Q27Cols)

(* The rows of d whose column c satisfies test. *)
FilterBy(d, c, test(_)) == Filter(d, [i \in 1..Len(d.rows) |-> test(d.rows[i][c])])

(* The frame the k-th report writes for frame d (run_all.py:192-218). *)
Query(k, d) ==
  LET size(g) == Num(Len(g.rows))
      codes(g) == NUnique(Col(g, "product_code"))
      sugar(g) == Mean(Col(g, "sugars_value"))
      carbs(g) == Mean(Col(g, "carbohydrates_value"))
      ratio(g) == Mean(Col(g, "sugar_to_carb_ratio"))
      kcal(g) == Mean(Col(g, "energy-kcal_value"))
      fvn(g) == Mean(Col(g, Fvn))
      isHigh(x) == x = High
      isYes(x) == x = Yes
      starts3(x) == AsStr(x) # <<>> /\ Head(AsStr(x)) = "3"
      gt20(x) == Gt(x, Num(20))
      gt1(x) == Gt(x, Num(1))
      gt0(x) == Gt(FillNa(x, Num(0)), Num(0))
      gt500(x) == Gt(x, Num(500))
      gt07(x) == Gt(x, Frac(7, 10))
      highCal == FilterBy(d, "calorie_category", isHigh)
      highSugar == FilterBy(d, "sugar_category", isHigh)
      ultra == FilterBy(d, "is_ultra_processed", isYes)
  IN  CASE k = 1 -> GroupAgg(d, "brand", "total", size)
        [] k = 2 -> GroupAgg(d, "brand", "unique_products", codes)
        [] k = 3 -> HeadRows(ValueCounts(d, "brand"), 5)
        [] k = 4 -> FilterBy(d, "product_name", IsNull)
        [] k = 5 -> OneRow("unique_brands", NUnique(Col(d, "brand")))
        [] k = 6 -> FilterBy(d, "product_code", starts3)
        [] k = 7 -> Project(NLargest(d, 10, "energy-kcal_value"), Q07Cols)
        [] k = 8 -> GroupAgg(d, "nova-group", "avg_sugar", sugar)
        [] k = 9 -> FilterBy(d, "fat_value", gt20)
        [] k = 10 -> GroupAgg(d, "product_code", "carbohydrates_value", carbs)
        [] k = 11 -> FilterBy(d, "sodium_value", gt1)
        [] k = 12 -> FilterBy(d, Fvn, gt0)
        [] k = 13 -> FilterBy(d, "energy-kcal_value", gt500)
        [] k = 14 -> ValueCounts(d, "calorie_category")
        [] k = 15 -> highSugar
        [] k = 16 -> OneRow("avg_ratio", ratio(highCal))
        [] k = 17 -> FilterBy(highCal, "sugar_category", isHigh)
        [] k = 18 -> ultra
        [] k = 19 -> FilterBy(d, "sugar_to_carb_ratio", gt07)
        [] k = 20 -> GroupAgg(d, "calorie_category", "sugar_to_carb_ratio", ratio)
        [] k = 21 -> HeadRows(ValueCounts(highCal, "brand"), 5)
        [] k = 22 -> GroupAgg(d, "calorie_category", "energy-kcal_value", kcal)
        [] k = 23 -> ValueCounts(ultra, "brand")
        [] k = 24 -> Project(FilterBy(highSugar, "calorie_category", isHigh), Q24Cols)
        [] k = 25 -> GroupAgg(ultra, "brand", "sugars_value", sugar)
        [] k = 26 -> GroupAgg(d, "calorie_category", Fvn, fvn)
        [] k = 27 -> Project(NLargest(d, 5, "sugar_to_carb_ratio"), Q27Cols)

(* Report k on frame d when the sorts of q07 and q27 leave equal values in
   the orders t7 and t27. *)
QueryWith(k, d, t7, t27) ==
  IF k = 7 THEN Project(NLargestWith(d, 10, "energy-kcal_value", t7), Q07Cols)
  ELSE IF k = 27 THEN Project(NLargestWith(d, 5, "sugar_to_carb_ratio", t27), Q27Cols)
  ELSE Query(k, d)

(* The frames report k can be on frame d. *)
QueryOutcomes(k, d) == {QueryWith(k, d, t, t) : t \in TieOrders}

(* df["brand"] = df["brand"].fillna("Unknown") (run_all.py:188), in place. *)
FillBrand(d) ==
  Frame(d.cols,
        [i \in 1..Len(d.rows) |->
           [d.rows[i] EXCEPT !["brand"] = FillNa(@, Unknown)]])

(* df["sugartocarbratio"] = df["sugar_to_carb_ratio"] (run_all.py:189), in
   place: a new last column. *)
AddAlias(d) ==
  Frame(IF HasCol(d, "sugartocarbratio") THEN d.cols
        ELSE d.cols \o <<"sugartocarbratio">>,
        [i \in 1..Len(d.rows) |->
           [c \in DOMAIN d.rows[i] \cup {"sugartocarbratio"} |->
              IF c = "sugartocarbratio" THEN d.rows[i]["sugar_to_carb_ratio"]
              ELSE d.rows[i][c]]])

(* The caller's frame as step_analytics leaves it: both assignments are made
   on the frame that was passed in; the second is not reached when the first
   raises. *)
AfterEdits(d) ==
  IF ~HasCol(d, "brand") THEN d
  ELSE IF ~HasCol(d, "sugar_to_carb_ratio") THEN FillBrand(d)
  ELSE AddAlias(FillBrand(d))

EditsRaise(d) == ~HasCol(d, "brand") \/ ~HasCol(d, "sugar_to_carb_ratio")

QueryRaises(k, d) == ~HasCols(d, QueryReads(k))

(* The number of reports step_analytics writes on frame d: the reports are
   computed and written one after the other, and the first exception ends
   the function. *)
ReportsWritten(d) ==
  IF EditsRaise(d) THEN 0
  ELSE LET have == Range(AfterEdits(d).cols)
           failing == {k \in 1..NQueries : ~(QueryReads(k) \subseteq have)}
       IN  IF failing = {} THEN NQueries
           ELSE (CHOOSE k \in failing : \A j \in failing : k <= j) - 1

(* The position of a report in the batch. *)
QueryIndex(q) == CHOOSE i \in 1..NQueries : QueryNames[i] = q

(* The out/ directory after step_analytics on frame d, when equal values
   keep their row order in q07 and q27. *)
OutAfter(d, before) ==
  LET e == AfterEdits(d)
      n == ReportsWritten(d)
  IN  [q \in Range(QueryNames) |->
         IF QueryIndex(q) <= n THEN File(Query(QueryIndex(q), e)) ELSE before[q]]

(* The out/ directories step_analytics can leave on frame d: q07 and q27,
   when written, with equal values in any of the orders of the sort. *)
OutChoices(d, before) ==
  LET e == AfterEdits(d)
      n == ReportsWritten(d)
      base == OutAfter(d, before)
      top(k, t) == IF k <= n THEN File(QueryWith(k, e, t, t)) ELSE before[QueryNames[k]]
  IN  {[base EXCEPT ![QueryNames[7]] = top(7, t7), ![QueryNames[27]] = top(27, t27)] :
         t7 \in TieOrders, t27 \in TieOrders}

(* step_analytics (run_all.py:187-219). *)
AnalyticsRaise ==
  /\ pc = "analytics"
  /\ ReportsWritten(df) < NQueries
  /\ df' = AfterEdits(df)
  /\ out' \in OutChoices(df, out)
  /\ pc' = "raised"
  /\ err' = Raised("step_analytics", "KeyError")
  /\ UNCHANGED <<fetch, raw, product_csv, nutrient_csv, derived_csv, parquet,
                 snapshot, eda>>

AnalyticsOk ==
  /\ pc = "analytics"
  /\ ReportsWritten(df) = NQueries
  /\ df' = AfterEdits(df)
  /\ out' \in OutChoices(df, out)
  /\ pc' = "done"
  /\ UNCHANGED <<fetch, raw, product_csv, nutrient_csv, derived_csv, parquet,
                 snapshot, eda, err>>

step_analytics == AnalyticsRaise \/ AnalyticsOk

----------------------------------------------------------------------------
(* The inputs.  A line of the raw file is blank, text json.loads rejects, a
   JSON value that is no object, or a JSON object with the keys the pipeline
   reads: code, product_name, brands, nutriments. *)
NoNutriments == [shape |-> "absent", m |-> <<>>]
Mapping(m) == [shape |-> "map", m |-> m]
(* `nutriments` bound to a non-empty string. *)
TruthyNutriments == [shape |-> "truthy", m |-> <<>>]

Product(code, name, brands, nutriments) ==
  [code |-> code, product_name |-> name, brands |-> brands,
   nutriments |-> nutriments]

ObjectLine(p) == [k |-> "object", p |-> p]
OtherLine(kind) == [k |-> kind, p |-> Product(Null, Null, Null, NoNutriments)]

Codes == {Null, Str(<<"1">>), Str(<<"0", "1">>)}

(* product_name and brands. *)
Identities ==
  { <<Null, Str(<<"a", "b", ",", " ", "c">>)>>,
    <<Str(<<"N", "A">>), Str(<<"n", "/", "a">>)>> }

NutrimentsHigh ==
  ("energy-kcal_100g" :> Str(<<"3", "1", "0", " ", "k", "c", "a", "l">>))
    @@ ("sugars_100g" :> Num(20)) @@ ("carbohydrates_100g" :> Num(25))
    @@ ("fat_100g" :> Frac(305, 10)) @@ ("sodium_100g" :> Num(2))
    @@ (Fvn :> Num(10)) @@ ("nova-group" :> Num(4))

NutrimentsLow ==
  ("energy-kcal_100g" :> Num(100)) @@ ("sugars_100g" :> Num(2))
    @@ ("carbohydrates_100g" :> Num(8)) @@ ("fat_100g" :> Num(3))
    @@ ("nutrition-score-fr_100g" :> Num(0))

NutrimentChoices == {Mapping(NutrimentsHigh), Mapping(NutrimentsLow)}

BasicProducts ==
  {Product(c, i[1], i[2], n) : c \in Codes, i \in Identities, n \in NutrimentChoices}

BasicLines ==
  {ObjectLine(p) : p \in BasicProducts}
    \cup {ObjectLine(Product(Str(<<"3", "a">>), Null, Null, NoNutriments)),
          ObjectLine(Product(Str(<<"1">>), Null, Null, TruthyNutriments)),
          OtherLine("blank"), OtherLine("bad"), OtherLine("value")}

(* The values a nutrient key is bound to in the one-record files. *)
EnergyValues ==
  {Null, Num(150), Num(151), Str(<<"3", "0", "0", " ", "k", "c", "a", "l">>),
   Frac(3001, 10), PosInf, Str(<<"k", "c", "a", "l">>)}
CarbValues == {Null, Num(0), Num(-1), Num(4), PosInf}
SugarValues == {Null, Num(-1), Num(1), Num(4), Num(6), PosInf, NegInf}
NovaChoices ==
  { <<>>,
    "nova-group_100g" :> Num(4),
    "nova-group" :> Str(<<"4">>),
    "nova-group_100g" :> Num(1),
    ("nova-group_100g" :> Num(0)) @@ ("nova-group" :> Num(3)) }

DetailedProducts ==
  {Product(Str(<<"3", "a">>), Null, Null,
           Mapping(("energy-kcal_100g" :> e) @@ ("carbohydrates_100g" :> c)
                     @@ ("sugars_100g" :> g) @@ v)) :
     e \in EnergyValues, c \in CarbValues, g \in SugarValues, v \in NovaChoices}

RECURSIVE SeqsUpTo(_, _)
(* The sequences over S of length at most n. *)
SeqsUpTo(S, n) ==
  IF n = 0 THEN {<<>>}
  ELSE LET shorter == SeqsUpTo(S, n - 1)
       IN  shorter \cup {Append(q, x) : q \in {t \in shorter : Len(t) = n - 1}, x \in S}

NoRaw == [exists |-> FALSE, lines |-> <<>>]
RawFile(lines) == [exists |-> TRUE, lines |-> lines]

RawFiles ==
  {NoRaw} \cup {RawFile(l) : l \in SeqsUpTo(BasicLines, MaxRecords)}
    \cup {RawFile(<<ObjectLine(p)>>) : p \in DetailedProducts}

(* A CSV file without one of its columns: the file an earlier schema of the
   cleaning step left on disk. *)
DropColumn(file, c) ==
  [exists |-> file.exists, cols |-> Without(file.cols, c),
   rows |-> [i \in 1..Len(file.rows) |->
               [x \in DOMAIN file.rows[i] \ {c} |-> file.rows[i][x]]]]

StaleDrops == {"sugars_value", "fat_value", "sodium_value", Fvn}

NoReports == [q \in Range(QueryNames) |-> NoFile]

----------------------------------------------------------------------------
(* Step 1: step_fetch_combined and _get_products (run_all.py:46-81).  The
   remote API is free to fail a request or to answer it with any page, empty
   or not.  `fetch` holds the locals of step_fetch_combined; pc is "fetch" at
   the test of the while loop and "request" inside _get_products. *)

(* Largest max_records that InitFetch enumerates. *)
MaxFetch == 3
(* Largest number of products the API puts on one page. *)
MaxPageLen == 2
(* range(4) in _get_products. *)
Attempts == 4

(* The sources, in the order of the for loop. *)
Sources == <<"categories", "search_terms">>

(* The products the API serves. *)
FetchProducts ==
  {Product(Str(<<"1">>), Null, Null, NoNutriments),
   Product(Str(<<"3", "a">>), Str(<<"N", "A">>), Null, NoNutriments)}

(* The pages the API can answer a request with. *)
Pages == SeqsUpTo(FetchProducts, MaxPageLen)

(* The locals when step_fetch_combined is entered (run_all.py:61-67). *)
FetchStart(max_records) ==
  [max_records |-> max_records, source |-> 1, page |-> 1, attempt |-> 0,
   all_prods |-> <<>>, total |-> 0]

(* The locals outside a call of step_fetch_combined. *)
NotFetching ==
  [max_records |-> 0, source |-> Len(Sources) + 1, page |-> 1, attempt |-> 0,
   all_prods |-> <<>>, total |-> 0]

(* `break`, or the while test failing: the for loop goes to the next source,
   whose pages start at 1. *)
NextSource(f) == [f EXCEPT !.source = f.source + 1, !.page = 1, !.attempt = 0]

(* all_prods[:max_records] without the slice. *)
Untruncated(all_prods, max_records) == all_prods

(* all_prods[:max_records] (run_all.py:76), max_records >= 0. *)
Truncated(all_prods, max_records) ==
  SubSeq(all_prods, 1,
         IF Len(all_prods) < max_records THEN Len(all_prods) ELSE max_records)

(* The while test (run_all.py:68): a request is made while fewer than
   max_records products are collected, else the source is done. *)
FetchWhile ==
  /\ pc = "fetch"
  /\ fetch.source <= Len(Sources)
  /\ IF fetch.total < fetch.max_records
       THEN pc' = "request" /\ fetch' = [fetch EXCEPT !.attempt = 0]
       ELSE pc' = "fetch" /\ fetch' = NextSource(fetch)
  /\ UNCHANGED <<raw, product_csv, nutrient_csv, derived_csv, parquet,
                 snapshot, eda, out, df, err>>

(* One attempt of _get_products raises (run_all.py:48-56): the next attempt
   follows, and after the last one _get_products returns [] (run_all.py:57),
   which ends the source (run_all.py:70). *)
RequestFails ==
  /\ pc = "request"
  /\ IF fetch.attempt + 1 < Attempts
       THEN pc' = "request" /\ fetch' = [fetch EXCEPT !.attempt = @ + 1]
       ELSE pc' = "fetch" /\ fetch' = NextSource(fetch)
  /\ UNCHANGED <<raw, product_csv, nutrient_csv, derived_csv, parquet,
                 snapshot, eda, out, df, err>>

(* An attempt returns an empty page: `if not prods: break` (run_all.py:70). *)
PageEmpty ==
  /\ pc = "request"
  /\ pc' = "fetch"
  /\ fetch' = NextSource(fetch)
  /\ UNCHANGED <<raw, product_csv, nutrient_csv, derived_csv, parquet,
                 snapshot, eda, out, df, err>>

(* An attempt returns products (run_all.py:71-75): they are collected, and
   the source is done when max_records are reached. *)
PageOfProducts ==
  /\ pc = "request"
  /\ \E prods \in Pages \ {<<>>} :
       LET all == fetch.all_prods \o prods
           f == [fetch EXCEPT !.all_prods = all, !.total = Len(all),
                              !.page = @ + 1, !.attempt = 0]
       IN  fetch' = IF f.total >= f.max_records THEN NextSource(f) ELSE f
  /\ pc' = "fetch"
  /\ UNCHANGED <<raw, product_csv, nutrient_csv, derived_csv, parquet,
                 snapshot, eda, out, df, err>>

(* After the last source the products are cut to max_records and written,
   one per line (run_all.py:76-81); __main__ goes on to
   step_clean_transform. *)
FetchWrite ==
  /\ pc = "fetch"
  /\ fetch.source > Len(Sources)
  /\ LET kept == Truncated(fetch.all_prods, fetch.max_records)
     IN  raw' = RawFile([i \in 1..Len(kept) |-> ObjectLine(kept[i])])
  /\ pc' = "clean"
  /\ UNCHANGED <<fetch, product_csv, nutrient_csv, derived_csv, parquet,
                 snapshot, eda, out, df, err>>

step_fetch_combined ==
  FetchWhile \/ RequestFails \/ PageEmpty \/ PageOfProducts \/ FetchWrite

----------------------------------------------------------------------------
(* The pipeline of __main__ from step_clean_transform on: the raw file is
   what the fetch left (or is missing), no later artifact exists yet. *)
InitMain ==
  /\ raw \in RawFiles
  /\ product_csv = NoFile /\ nutrient_csv = NoFile /\ derived_csv = NoFile
  /\ pc = "clean"

(* The pipeline entered at step_feature_engineer over the intermediate files
   an earlier cleaning run left: either may be missing, and the nutrient
   file may be of a schema without one of today's columns. *)
InitResume ==
  /\ raw = NoRaw
  /\ \E p \in BasicProducts :
       LET f == RawFile(<<ObjectLine(p)>>)
           n == to_csv(CleanNutrients(f))
       IN  /\ product_csv \in {NoFile, to_csv(CleanProducts(f))}
           /\ nutrient_csv \in {NoFile, n} \cup {DropColumn(n, c) : c \in StaleDrops}
           /\ derived_csv = to_csv(CleanDerived(f))
  /\ pc = "engineer"

Init ==
  /\ InitMain \/ InitResume
  /\ fetch = NotFetching
  /\ parquet = NoFile /\ snapshot = NoFile
  /\ eda = {}
  /\ out = NoReports
  /\ df = NoFrame
  /\ err = NoError

Next ==
  \/ step_clean_transform
  \/ step_feature_engineer
  \/ step_eda
  \/ step_analytics

Spec == Init /\ [][Next]_vars

(* step_fetch_combined alone, called with a max_records of 0..MaxFetch and
   no raw file on disk.  The program runs on while it has a step to take. *)
InitFetch ==
  /\ \E m \in 0..MaxFetch : fetch = FetchStart(m)
  /\ raw = NoRaw
  /\ product_csv = NoFile /\ nutrient_csv = NoFile /\ derived_csv = NoFile
  /\ parquet = NoFile /\ snapshot = NoFile
  /\ eda = {}
  /\ out = NoReports
  /\ df = NoFrame
  /\ pc = "fetch"
  /\ err = NoError

SpecFetch == InitFetch /\ [][step_fetch_combined]_vars /\ WF_vars(step_fetch_combined)

----------------------------------------------------------------------------
(* Properties. *)

(* The engineered table as step_feature_engineer wrote it. *)
Snap == Frame(snapshot.cols, snapshot.rows)

(* The first raw record of every product_code, in file order. *)
FirstRecords(file) ==
  LET r == Records(file)
  IN  Pick(r, Where([i \in 1..Len(r) |->
                       \A j \in 1..(i - 1) : r[j].code # r[i].code]))

(* A run of __main__ (the raw file is there) that produced the engineered
   table. *)
EngineeredFromRaw == raw.exists /\ snapshot.exists

(* C1: after step_clean_transform and step_feature_engineer, the engineered
   table has one row per distinct product_code of the raw records, no two
   rows share a product_code, and each row's product_name and brand are the
   normalised fields of the first raw record with that code. *)
C1_OneRowPerCodeFirstIdentity ==
  EngineeredFromRaw =>
    LET firsts == FirstRecords(raw)
        rows == Snap.rows
    IN  /\ \A i, j \in 1..Len(rows) :
             i # j => rows[i]["product_code"] # rows[j]["product_code"]
        /\ Len(rows) = Len(firsts)
        /\ \A i \in 1..Len(rows) :
             /\ rows[i]["product_name"] = ProductRow(firsts[i])["product_name"]
             /\ rows[i]["brand"] = ProductRow(firsts[i])["brand"]

(* C2: when a report of step_analytics fails, every other report that can
   be computed is still written, with the content it has on this frame. *)
C2_QueryIsolation ==
  err.step = "step_analytics" =>
    \A j \in 1..NQueries :
      ~QueryRaises(j, df) =>
        \E f \in QueryOutcomes(j, df) : out[QueryNames[j]] = File(f)

(* The raw file is there and holds no record. *)
ZeroRecords == raw.exists /\ read_jsonl(raw) = <<>>

(* C3: on a raw file of zero records no stage raises, and the finished run
   has written all 27 reports, each with a header and no data row. *)
C3_EmptyInputAllReports ==
  ZeroRecords =>
    /\ pc # "raised"
    /\ pc = "done" =>
         \A q \in Range(QueryNames) :
           out[q].exists /\ out[q].cols # <<>> /\ out[q].rows = <<>>

(* The value a nutrient column is bound to in a record: the value of its
   key, and for the two columns with a second key the value of that one
   when the first key is missing. *)
BoundValue(p, col) ==
  LET m == NutrimentsOrEmpty(p)
  IN  IF SourceKey(col) \in DOMAIN m /\ ~IsNull(m[SourceKey(col)])
        THEN m[SourceKey(col)]
      ELSE IF col \in {"nutrition-score-fr", "nova-group"} THEN Get(m, col)
      ELSE Null

(* C4: normalising records never raises, whatever their nutriments are; every
   code yields one identity row and one nutrient row, and every nutrient
   field is the number its bound value starts with, null when there is
   none. *)
C4_NormaliseNeverRaises ==
  (raw.exists /\ \A l \in Range(read_jsonl(raw)) : l.k = "object") =>
    /\ err.step # "step_clean_transform"
    /\ nutrient_csv.exists =>
         LET firsts == FirstRecords(raw)
         IN  /\ Len(product_csv.rows) = Len(firsts)
             /\ Len(nutrient_csv.rows) = Len(firsts)
             /\ \A i \in 1..Len(firsts) : \A c \in Range(NutrientValueCols) :
                  nutrient_csv.rows[i][c] = CsvText(to_float(BoundValue(firsts[i], c)))

(* What C5 says of one row, given when the ratio is to be null: the ratio is
   null exactly then, and otherwise sugars/carbohydrates brought into
   [0, 1]. *)
RatioAsClaimed(r, nullCase) ==
  LET s == r["sugars_value"]
      c == r["carbohydrates_value"]
      q == r["sugar_to_carb_ratio"]
  IN  IF nullCase THEN IsNull(q)
      ELSE /\ IsNum(q) /\ 0 <= q.n /\ q.n <= q.d
           /\ IF IsInf(c) THEN q = Num(0)
              ELSE IF IsInf(s) THEN q = (IF s.n > 0 THEN Num(1) ELSE Num(0))
              ELSE IF s.n < 0 THEN q = Num(0)
              ELSE IF s.n * c.d > c.n * s.d THEN q = Num(1)
              ELSE q.n * s.d * c.n = q.d * s.n * c.d

NoRatioInput(r) ==
  \/ IsNull(r["carbohydrates_value"])
  \/ Le(r["carbohydrates_value"], Num(0))
  \/ IsNull(r["sugars_value"])

BothInfinite(r) == IsInf(r["sugars_value"]) /\ IsInf(r["carbohydrates_value"])

(* C5, as stated: in every engineered row the ratio is null exactly when
   carbohydrates is null or <= 0 or sugars is null, and otherwise is
   sugars/carbohydrates clamped to [0, 1]. *)
C5_RatioNullExactly ==
  \A i \in 1..Len(Snap.rows) : RatioAsClaimed(Snap.rows[i], NoRatioInput(Snap.rows[i]))

(* C5, amended: in every engineered row the ratio is null exactly when
   carbohydrates is null or <= 0, or sugars is null, or both are infinite
   (the quotient is undefined), and otherwise is sugars/carbohydrates clamped
   to [0, 1]; so it is null or within [0, 1]. *)
C5_RatioNullOrClamped ==
  \A i \in 1..Len(Snap.rows) :
    RatioAsClaimed(Snap.rows[i], NoRatioInput(Snap.rows[i]) \/ BothInfinite(Snap.rows[i]))

(* A row whose quotient exceeds 1 and was clamped to 1. *)
C5_Witness ==
  \E i \in 1..Len(Snap.rows) :
    /\ Snap.rows[i]["sugars_value"] = Num(6)
    /\ Snap.rows[i]["carbohydrates_value"] = Num(4)
    /\ Snap.rows[i]["sugar_to_carb_ratio"] = Num(1)

(* C6: in every engineered row calorie_category is Unknown exactly when
   energy is null, Low exactly when energy <= 150, Moderate exactly when
   150 < energy <= 300, High exactly when energy > 300. *)
C6_CaloriePartition ==
  \A i \in 1..Len(Snap.rows) :
    LET e == Snap.rows[i]["energy-kcal_value"]
        cat == Snap.rows[i]["calorie_category"]
    IN  /\ cat \in {Unknown, Low, Moderate, High}
        /\ cat = Unknown <=> IsNull(e)
        /\ cat = Low <=> Le(e, Num(150))
        /\ cat = Moderate <=> (Gt(e, Num(150)) /\ Le(e, Num(300)))
        /\ cat = High <=> Gt(e, Num(300))

(* A row on the boundary 150, in Low. *)
C6_Witness ==
  \E i \in 1..Len(Snap.rows) :
    /\ Snap.rows[i]["energy-kcal_value"] = Num(150)
    /\ Snap.rows[i]["calorie_category"] = Low

(* C7: in every engineered row is_ultra_processed is Yes exactly when
   nova-group is 4, No exactly when it is known and not 4, Unknown exactly
   when it is null. *)
C7_UltraProcessed ==
  \A i \in 1..Len(Snap.rows) :
    LET n == Snap.rows[i]["nova-group"]
        u == Snap.rows[i]["is_ultra_processed"]
    IN  /\ u \in {Yes, No, Unknown}
        /\ u = Yes <=> n = Num(4)
        /\ u = No <=> (~IsNull(n) /\ n # Num(4))
        /\ u = Unknown <=> IsNull(n)

(* Rows of all three kinds have been engineered. *)
C7_Witness ==
  /\ \E i \in 1..Len(Snap.rows) :
       Snap.rows[i]["nova-group"] = Num(4) /\ Snap.rows[i]["is_ultra_processed"] = Yes
  /\ \E i \in 1..Len(Snap.rows) :
       IsNull(Snap.rows[i]["nova-group"]) /\ Snap.rows[i]["is_ultra_processed"] = Unknown

(* The number of groups of a grouping report whose key is x. *)
GroupsOf(report, key, x) ==
  Cardinality({g \in 1..Len(report.rows) : report.rows[g][key] = x})

CalorieReports ==
  {"q14_count_per_calorie_category", "q20_avg_ratio_by_calorie_category",
   "q22_avg_kcal_by_calorie_category", "q26_avg_fvn_by_calorie_category"}

(* What C8 says of the reports grouped by brand and by calorie_category:
   every row of the frame is in exactly one group of each, and the totals of
   q01 add up to the number of rows. *)
BrandAndCalorieGroupsTotal ==
  /\ \A i \in 1..Len(df.rows) :
       /\ GroupsOf(out["q01_products_per_brand"], "brand", df.rows[i]["brand"]) = 1
       /\ GroupsOf(out["q02_unique_products_per_brand"], "brand", df.rows[i]["brand"]) = 1
       /\ \A q \in CalorieReports :
            GroupsOf(out[q], "calorie_category", df.rows[i]["calorie_category"]) = 1
  /\ SumOf(Col(out["q01_products_per_brand"], "total")) = Num(Len(df.rows))

(* C8, as stated: after step_analytics every row is in exactly one group of
   each grouping report, the rows with a null nova-group forming a group of
   q08. *)
C8_NullKeysAreGroups ==
  pc = "done" =>
    /\ BrandAndCalorieGroupsTotal
    /\ \A i \in 1..Len(df.rows) :
         GroupsOf(out["q08_avg_sugar_by_nova"], "nova-group", df.rows[i]["nova-group"]) = 1

(* C8, amended: after step_analytics every row is in exactly one group of
   the reports grouped by brand and by calorie_category (null brands become
   "Unknown", a null energy is the category "Unknown"), q01's totals add up
   to the number of rows, and q08 has one group per non-null nova-group and
   none for the rows whose nova-group is null. *)
C8_GroupsDropNullNova ==
  pc = "done" =>
    /\ BrandAndCalorieGroupsTotal
    /\ \A i \in 1..Len(df.rows) :
         GroupsOf(out["q08_avg_sugar_by_nova"], "nova-group", df.rows[i]["nova-group"])
           = IF IsNull(df.rows[i]["nova-group"]) THEN 0 ELSE 1

(* A finished run over rows with and without a nova-group, and with a null
   brand and a null energy. *)
C8_Witness ==
  /\ pc = "done"
  /\ \E i, j \in 1..Len(df.rows) :
       /\ IsNull(df.rows[i]["nova-group"]) /\ ~IsNull(df.rows[j]["nova-group"])
  /\ \E i \in 1..Len(Snap.rows) : IsNull(Snap.rows[i]["brand"])
  /\ \E i \in 1..Len(df.rows) : df.rows[i]["calorie_category"] = Unknown

(* C9: step_analytics leaves the engineered table as step_feature_engineer
   wrote it, and every report it writes is computed from that table. *)
C9_EngineeredImmutable ==
  (pc = "done" \/ err.step = "step_analytics") =>
    /\ df = Snap
    /\ \A k \in 1..NQueries :
         out[QueryNames[k]].exists =>
           \E f \in QueryOutcomes(k, Snap) : out[QueryNames[k]] = File(f)

(* C10: a stage whose input file is missing raises without writing anything:
   step_clean_transform when the raw file is absent (FileNotFoundError),
   step_feature_engineer when the product or the nutrient CSV is absent; and
   once a stage has raised no later stage runs. *)
C10_MissingInputFatal ==
  [][/\ (pc = "clean" /\ ~raw.exists) =>
          /\ pc' = "raised"
          /\ err' = Raised("step_clean_transform", "FileNotFoundError")
          /\ UNCHANGED <<product_csv, nutrient_csv, derived_csv, parquet,
                         snapshot, eda, out, df>>
     /\ (pc = "engineer" /\ (~product_csv.exists \/ ~nutrient_csv.exists)) =>
          /\ pc' = "raised"
          /\ err'.step = "step_feature_engineer"
          /\ UNCHANGED <<product_csv, nutrient_csv, derived_csv, parquet,
                         snapshot, eda, out, df>>
     /\ pc # "raised"]_vars

(* step_feature_engineer has raised on a missing nutrient CSV, the product
   CSV being there, and nothing was written. *)
C10_Witness ==
  /\ pc = "raised"
  /\ err = Raised("step_feature_engineer", "FileNotFoundError")
  /\ product_csv.exists /\ ~nutrient_csv.exists
  /\ ~parquet.exists /\ ~snapshot.exists

(* The sequences of k distinct row positions of a frame of n rows. *)
Selections(n, k) ==
  {idx \in [1..k -> 1..n] : \A a, b \in 1..k : a # b => idx[a] # idx[b]}

(* What C11 says of a top-n report on column col of frame d: it lists at most
   n rows of d, none before a row of greater value; listed rows of equal
   value are in row order, and of the rows of a value that straddles the cut
   the earlier ones are listed; no row left out has a greater value than a
   listed one. *)
TopNAsClaimed(report, d, n, col, cols) ==
  LET v == Col(d, col)
      k == Len(report.rows)
  IN  /\ k <= n
      /\ k <= Len(d.rows)
      /\ \E idx \in Selections(Len(d.rows), k) :
           /\ \A a \in 1..k :
                report.rows[a] = [c \in Range(cols) |-> d.rows[idx[a]][c]]
           /\ \A a, b \in 1..k :
                a < b =>
                  /\ ~Gt(v[idx[b]], v[idx[a]])
                  /\ (IsFloat(v[idx[a]]) /\ v[idx[a]] = v[idx[b]]) => idx[a] < idx[b]
           /\ \A i \in 1..Len(d.rows) :
                (IsFloat(v[i]) /\ \A a \in 1..k : idx[a] # i) =>
                  \A a \in 1..k :
                    /\ ~Gt(v[i], v[idx[a]])
                    /\ v[i] = v[idx[a]] => idx[a] < i

(* C11: the reports q07 (top 10 by energy-kcal_value) and q27 (top 5 by
   sugar_to_carb_ratio) list at most N rows by descending value, rows of
   equal value in input row order, the earlier rows kept when a tie straddles
   the cut, and no row left out has a greater value than a listed row. *)
C11_TopNStableOrder ==
  /\ out["q07_top10_energy_kcal"].exists =>
       TopNAsClaimed(out["q07_top10_energy_kcal"], df, 10, "energy-kcal_value", Q07Cols)
  /\ out["q27_top5_by_ratio"].exists =>
       TopNAsClaimed(out["q27_top5_by_ratio"], df, 5, "sugar_to_carb_ratio", Q27Cols)

(* What C12 says of every state of step_fetch_combined: a request is being
   made only while fewer than max_records products are collected and is at
   most the 4th attempt for its page; total is the number of products
   collected; nothing is written before the end, and what is written is the
   first max_records products collected, at most. *)
FetchBounded ==
  /\ pc = "request" =>
       /\ fetch.total < fetch.max_records
       /\ fetch.attempt + 1 <= Attempts
       /\ fetch.source \in 1..Len(Sources)
  /\ fetch.total = Len(fetch.all_prods)
  /\ pc \in {"fetch", "request"} => ~raw.exists
  /\ pc = "clean" =>
       /\ raw.exists
       /\ Len(raw.lines) <= fetch.max_records
       /\ \A i \in 1..Len(raw.lines) : raw.lines[i] = ObjectLine(fetch.all_prods[i])

(* What C12 says of every step: the outcome of a request is a further attempt
   at the same page, or the end of the source without a product (an empty
   page, or the 4th failure), or more products than before; a source that
   has ended is not queried again. *)
FetchProgress ==
  /\ pc = "request" =>
       \/ /\ pc' = "request"
          /\ fetch' = [fetch EXCEPT !.attempt = @ + 1]
       \/ /\ pc' = "fetch"
          /\ fetch'.source = fetch.source + 1
          /\ fetch'.all_prods = fetch.all_prods
       \/ /\ pc' = "fetch"
          /\ fetch'.total > fetch.total
          /\ fetch'.source = fetch.source <=> fetch'.total < fetch.max_records
  /\ fetch'.source >= fetch.source
  /\ fetch'.max_records = fetch.max_records

(* C12: whatever the API does (failures, empty pages, pages of products),
   step_fetch_combined returns, having written at most max_records records;
   a page is requested at most 4 times and the 4th failure counts as an
   empty page, an empty page ends its source, a source is queried only while
   fewer than max_records products are collected, and a page of products
   strictly increases the total. *)
C12_FetchTerminatesBounded ==
  /\ []FetchBounded
  /\ [][FetchProgress]_vars
  /\ <>(pc = "clean")

(* A fetch has returned with more products collected than max_records, and
   the file holds the first max_records of them. *)
C12_Witness ==
  /\ pc = "clean"
  /\ fetch.max_records = MaxFetch
  /\ Len(fetch.all_prods) > fetch.max_records
  /\ Len(raw.lines) = fetch.max_records

====
